---- MODULE Spec2Model ----
(***************************************************************************)
(* The generated-code extraction pipeline of DeveloperAssistantAgent:      *)
(* extractCodeBlocks, extractConfig and preserveOrderedContent, run in     *)
(* that order by processCodeGeneration on the text a model call returned.  *)
(* A JavaScript string is a sequence of one-character strings; offsets are *)
(* JavaScript's (0-based), so the character at offset o of t is t[o+1].    *)
(***************************************************************************)
EXTENDS Integers, Sequences, FiniteSets, TLC

\* the extraction: the text, the position in processCodeGeneration's three
\* calls, and the locals of extractCodeBlocks and preserveOrderedContent
VARIABLES text, pc, reLastIndex, blocks, order, spans, config,
          lastIndex, parts, codeIndex, explanation

\* one request to the agent: what arrived, the position in its handler, the
\* lookups of its Promise.all, the model invocations, and what it did
VARIABLES request, at, pending, searchAt, finished, promptBuilt, tried,
          modelUsed, aiDone, extracted, sent, aiCalls, retrievals, writes

extractVars == <<text, pc, reLastIndex, blocks, order, spans, config,
                 lastIndex, parts, codeIndex, explanation>>

requestVars == <<request, at, pending, searchAt, finished, promptBuilt, tried,
                 modelUsed, aiDone, extracted, sent, aiCalls, retrievals,
                 writes>>

\* the conversation_messages table in insertion order, Date.now(), and the
\* conversation and result of the last getConversationHistory
VARIABLES messages, now, asked, history

historyVars == <<messages, now, asked, history>>

\* the project_state table in insertion order, the saveProjectState calls in
\* progress, Date.now() for them, the state of the save that completed
\* last, and the result of the last getProjectState
VARIABLES project_state, saving, clock, issued, completed, got

projectVars == <<project_state, saving, clock, issued, completed, got>>

\* the frontend (DeveloperAssistant of app.js): this.ws as null or the
\* readyState of the socket, the connected flag and the two timers of
\* connectWebSocketToUrl, isGenerating, the requests sendMessage and
\* generateCode accepted, what went out on each transport, and the
\* transport an answer is awaited on
VARIABLES ws, connected, timeoutArmed, reconnectArmed, isGenerating,
          accepted, wsOut, httpOut, awaiting

frontendVars == <<ws, connected, timeoutArmed, reconnectArmed, isGenerating,
                  accepted, wsOut, httpOut, awaiting>>

\* one chat request against the conversation store: its transport and the
\* conversationId it carries, the position in processChatMessage or
\* handleChat, convId, the invocation in flight, the stored rows passed to it
\* as messages and those quoted in its system prompt, the conversationId of
\* the response, this.conversationId of the frontend, and the requests
\* served so far
VARIABLES chat, chatAt, convId, invocation, passed, quoted, returned,
          clientConv, served

chatVars == <<chat, chatAt, convId, invocation, passed, quoted, returned,
              clientConv, served>>

\* the agent's database initialization: the dbInitialized field, the
\* position of each fetch call, the number of initializeDatabase calls, and
\* the tables and index that exist
VARIABLES dbInitialized, fetches, initCalls, schema

initVars == <<dbInitialized, fetches, initCalls, schema>>

\* POST /populate: the position in the handler, the document being
\* embedded, the chunks collected, the vector index, and the response
VARIABLES popAt, doc, chunks, index, popSent

populateVars == <<popAt, doc, chunks, index, popSent>>

vars == <<extractVars, requestVars, historyVars, projectVars, frontendVars,
          chatVars, initVars, populateVars>>

\* what a step of the frontend leaves alone
notFrontend == <<extractVars, requestVars, historyVars, projectVars, chatVars,
                  initVars, populateVars>>

\* what a step of the extraction leaves alone
notExtract == <<requestVars, historyVars, projectVars, frontendVars, chatVars,
                 initVars, populateVars>>

\* what a step of a request leaves alone
notRequest == <<extractVars, historyVars, projectVars, frontendVars, chatVars,
                 initVars, populateVars>>

\* what a step on the conversation store leaves alone
notHistory == <<extractVars, requestVars, projectVars, frontendVars, chatVars,
                 initVars, populateVars>>

\* what a step on the project state leaves alone
notProject == <<extractVars, requestVars, historyVars, frontendVars, chatVars,
                 initVars, populateVars>>

\* what a step of a chat request leaves alone (it reads and writes the
\* conversation store)
notChat == <<extractVars, requestVars, projectVars, frontendVars, initVars,
             populateVars>>

\* what a step of a fetch call's initialization leaves alone
notInit == <<extractVars, requestVars, historyVars, projectVars, frontendVars,
             chatVars, populateVars>>

\* what a step of POST /populate leaves alone
notPopulate == <<extractVars, requestVars, historyVars, projectVars,
                 frontendVars, chatVars, initVars>>

\* ---------------------------------------------------------------- characters

Lowers == {"a", "b", "c", "d", "e", "f", "g", "h", "i", "j", "k", "l", "m", "n", "o", "p", "q", "r", "s", "t", "u", "v", "w", "x", "y", "z"}
Uppers == {"A", "B", "C", "D", "E", "F", "G", "H", "I", "J", "K", "L", "M", "N", "O", "P", "Q", "R", "S", "T", "U", "V", "W", "X", "Y", "Z"}
Digits == {"0", "1", "2", "3", "4", "5", "6", "7", "8", "9"}
\* \w of a JavaScript regular expression
WordChars == Lowers \cup Uppers \cup Digits \cup {"_"}
\* \s of a JavaScript regular expression (the ASCII part)
Whitespace == {" ", "\n", "\t", "\r"}
\* [a-zA-Z0-9_\-\.\/] of the filename patterns
FileChars == WordChars \cup {"-", ".", "/"}

\* String.prototype.toLowerCase on one character
ToLower(c) ==
  CASE c = "A" -> "a"
    [] c = "B" -> "b"
    [] c = "C" -> "c"
    [] c = "D" -> "d"
    [] c = "E" -> "e"
    [] c = "F" -> "f"
    [] c = "G" -> "g"
    [] c = "H" -> "h"
    [] c = "I" -> "i"
    [] c = "J" -> "j"
    [] c = "K" -> "k"
    [] c = "L" -> "l"
    [] c = "M" -> "m"
    [] c = "N" -> "n"
    [] c = "O" -> "o"
    [] c = "P" -> "p"
    [] c = "Q" -> "q"
    [] c = "R" -> "r"
    [] c = "S" -> "s"
    [] c = "T" -> "t"
    [] c = "U" -> "u"
    [] c = "V" -> "v"
    [] c = "W" -> "w"
    [] c = "X" -> "x"
    [] c = "Y" -> "y"
    [] c = "Z" -> "z"
    [] OTHER -> c

\* ------------------------------------------------------------ string helpers

\* undefined / null of JavaScript: a value no string of characters equals
NULL == <<"null">>

Min(S) == CHOOSE x \in S : \A y \in S : x <= y

\* t.substring(a, b)
Slice(t, a, b) == SubSeq(t, a + 1, b)

\* the character at offset o, "" past the end
At(t, o) == IF o >= 0 /\ o < Len(t) THEN t[o + 1] ELSE ""

\* the literal lit stands at offset o of t
LitAt(t, o, lit) ==
  /\ o >= 0
  /\ o + Len(lit) <= Len(t)
  /\ \A k \in 1..Len(lit) : t[o + k] = lit[k]

\* the same under the i flag; lit is written in lower case
LitAtI(t, o, lit) ==
  /\ o >= 0
  /\ o + Len(lit) <= Len(t)
  /\ \A k \in 1..Len(lit) : ToLower(t[o + k]) = lit[k]

\* t.indexOf(lit, from), -1 when absent
RECURSIVE IndexOf(_, _, _)
IndexOf(t, lit, from) ==
  IF from + Len(lit) > Len(t) THEN -1
  ELSE IF LitAt(t, from, lit) THEN from
  ELSE IndexOf(t, lit, from + 1)

\* t.toLowerCase().indexOf(lit, from)
RECURSIVE IndexOfI(_, _, _)
IndexOfI(t, lit, from) ==
  IF from + Len(lit) > Len(t) THEN -1
  ELSE IF LitAtI(t, from, lit) THEN from
  ELSE IndexOfI(t, lit, from + 1)

\* length of the longest run of characters of class C that starts at offset o
RECURSIVE RunIn(_, _, _)
RunIn(t, o, C) ==
  IF o < Len(t) /\ t[o + 1] \in C THEN 1 + RunIn(t, o + 1, C) ELSE 0

\* length of the longest run of characters outside C that starts at offset o
RECURSIVE RunNotIn(_, _, _)
RunNotIn(t, o, C) ==
  IF o < Len(t) /\ t[o + 1] \notin C THEN 1 + RunNotIn(t, o + 1, C) ELSE 0

\* length of the longest run of characters of class C that ends before offset e
RECURSIVE RunBack(_, _, _)
RunBack(t, e, C) ==
  IF e > 0 /\ t[e] \in C THEN 1 + RunBack(t, e - 1, C) ELSE 0

\* String.prototype.trim
Trim(t) ==
  LET a == RunIn(t, 0, Whitespace)
  IN  IF a = Len(t) THEN <<>>
      ELSE Slice(t, a, Len(t) - RunBack(t, Len(t), Whitespace))

\* a || b on strings: undefined and "" are falsy
OrElse(a, b) == IF a = NULL \/ a = <<>> THEN b ELSE a

\* ------------------------------------------------------------------ literals

\* the backtick character (a string literal cannot hold it)
Backtick == "BACKTICK"

Fence == <<Backtick, Backtick, Backtick>>
AttrOpen == <<"f", "i", "l", "e", "n", "a", "m", "e", "=", "\"">>
Quote == <<"\"">>
Typescript == <<"t", "y", "p", "e", "s", "c", "r", "i", "p", "t">>
Ts == <<"t", "s">>
Toml == <<"t", "o", "m", "l">>
Json == <<"j", "s", "o", "n">>
Wrangler == <<"w", "r", "a", "n", "g", "l", "e", "r">>
WranglerToml == <<"w", "r", "a", "n", "g", "l", "e", "r", ".", "t", "o", "m", "l">>
SrcIndexTs == <<"s", "r", "c", "/", "i", "n", "d", "e", "x", ".", "t", "s">>
PackageJson == <<"p", "a", "c", "k", "a", "g", "e", ".", "j", "s", "o", "n">>

\* text.includes("```")
HasFence(t) == IndexOf(t, Fence, 0) >= 0

\* ------------------------------------------------- codeBlockRegex, one match
\* /```(\w+)?\s*(?:filename="([^"]+)")?\n([\s\S]*?)```/g

\* filename="([^"]+)" at offset o: the offset after the closing quote, or -1
AttrEnd(t, o) ==
  LET v == o + Len(AttrOpen)
      q == IndexOf(t, Quote, v)
  IN  IF LitAt(t, o, AttrOpen) /\ q > v THEN q + 1 ELSE -1

\* The ways the head of the pattern can match at a marker at offset i: w
\* characters of (\w+)?, s of \s*, and the attribute taken (a) or skipped.
\* nl is the offset where \n must stand.
HeadNl(t, i, c) ==
  IF c.a THEN AttrEnd(t, i + 3 + c.w + c.s) ELSE i + 3 + c.w + c.s

HeadCands(t, i) ==
  LET p == i + 3
      all == UNION {{[w |-> w, s |-> s, a |-> a] :
                       s \in 0..RunIn(t, p + w, Whitespace), a \in BOOLEAN} :
                    w \in 0..RunIn(t, p, WordChars)}
  IN  {c \in all : /\ HeadNl(t, i, c) >= 0
                   /\ At(t, HeadNl(t, i, c)) = "\n"
                   /\ IndexOf(t, Fence, HeadNl(t, i, c) + 1) >= 0}

\* backtracking order: greedy (\w+)?, then greedy \s*, then the attribute
\* before its omission
HeadRank(t, c) == (c.w * (Len(t) + 1) + c.s) * 2 + (IF c.a THEN 1 ELSE 0)

NoMatch == [index |-> -1, end |-> -1, lang |-> NULL, fname |-> NULL, body |-> <<>>]

\* the match of codeBlockRegex that starts at offset i
MatchAt(t, i) ==
  LET cs == HeadCands(t, i)
  IN  IF ~LitAt(t, i, Fence) \/ cs = {} THEN NoMatch
      ELSE LET c  == CHOOSE x \in cs : \A y \in cs : HeadRank(t, x) >= HeadRank(t, y)
               p  == i + 3
               nl == HeadNl(t, i, c)
               q  == IndexOf(t, Fence, nl + 1)
           IN  [index |-> i,
                end   |-> q + 3,
                lang  |-> IF c.w = 0 THEN NULL ELSE Slice(t, p, p + c.w),
                fname |-> IF c.a THEN Slice(t, p + c.w + c.s + Len(AttrOpen), nl - 1)
                          ELSE NULL,
                body  |-> Slice(t, nl + 1, q)]

\* codeBlockRegex.exec(text) with the regex's lastIndex at from: the match
\* at the first offset from which the pattern matches
RECURSIVE Exec(_, _)
Exec(t, from) ==
  LET i == IndexOf(t, Fence, from)
      m == MatchAt(t, i)
  IN  IF i < 0 THEN NoMatch
      ELSE IF m.index >= 0 THEN m
      ELSE Exec(t, i + 1)

\* the lastIndex exec leaves behind after the match m (the g flag)
ExecLastIndex_NoGlobal(m) == 0

ExecLastIndex(m) == m.end

\* ------------------------------------------------------- filenamePatterns
\* (ts|js|json|toml|md|txt), in the order the alternation tries them
Exts == << <<"t", "s">>, <<"j", "s">>, <<"j", "s", "o", "n">>,
           <<"t", "o", "m", "l">>, <<"m", "d">>, <<"t", "x", "t">> >>

\* \.(ts|js|json|toml|md|txt) at offset o, followed by the literal suffix:
\* the offset after the extension of the first alternative that lets the
\* rest of the pattern match, or -1
ExtEnd(t, o, suffix) ==
  LET ks == {k \in 1..Len(Exts) : LitAtI(t, o + 1, Exts[k] \o suffix)}
  IN  IF At(t, o) # "." \/ ks = {} THEN -1 ELSE o + 1 + Len(Exts[Min(ks)])

\* ([a-zA-Z0-9_\-\.\/]+\.(ext)) at offset o followed by suffix: the greedy
\* class run gives back characters until the extension and the suffix match
RECURSIVE GreedyTokenEnd(_, _, _, _)
GreedyTokenEnd(t, o, n, suffix) ==
  IF n < 1 THEN -1
  ELSE IF ExtEnd(t, o + n, suffix) >= 0 THEN ExtEnd(t, o + n, suffix)
  ELSE GreedyTokenEnd(t, o, n - 1, suffix)

FileTokenEnd(t, o, suffix) ==
  GreedyTokenEnd(t, o, RunIn(t, o, FileChars), suffix)

\* ([^\*\n]+\.(ext)) at offset o followed by suffix
BoldTokenEnd(t, o, suffix) ==
  GreedyTokenEnd(t, o, RunNotIn(t, o, {"*", "\n"}), suffix)

Stars == <<"*", "*">>
Colon == <<":">>
Verbs == << <<"c", "r", "e", "a", "t", "e">>, <<"a", "d", "d">>,
            <<"g", "e", "n", "e", "r", "a", "t", "e">>,
            <<"w", "r", "i", "t", "e">>, <<"s", "a", "v", "e">> >>
Labels == << <<"f", "i", "l", "e">>,
             <<"f", "i", "l", "e", " ", "n", "a", "m", "e">>,
             <<"f", "i", "l", "e", "n", "a", "m", "e">> >>

\* /\*\*([^\*\n]+\.(ts|js|json|toml|md|txt))\*\*/i : group 1 of the leftmost
\* match in b, or NULL
RECURSIVE BoldFrom(_, _)
BoldFrom(b, o) ==
  IF o >= Len(b) THEN NULL
  ELSE IF LitAt(b, o, Stars) /\ BoldTokenEnd(b, o + 2, Stars) >= 0
       THEN Slice(b, o + 2, BoldTokenEnd(b, o + 2, Stars))
  ELSE BoldFrom(b, o + 1)

BoldPattern(b) == BoldFrom(b, 0)

\* /([a-zA-Z0-9_\-\.\/]+\.(ts|js|json|toml|md|txt)):/i
RECURSIVE ColonFrom(_, _)
ColonFrom(b, o) ==
  IF o >= Len(b) THEN NULL
  ELSE IF At(b, o) \in FileChars /\ FileTokenEnd(b, o, Colon) >= 0
       THEN Slice(b, o, FileTokenEnd(b, o, Colon))
  ELSE ColonFrom(b, o + 1)

ColonPattern(b) == ColonFrom(b, 0)

\* a keyword of ks (tried in order), then a greedy run of at least one
\* character of class sep, then the file token: the ways to match at offset o
KeywordCands(b, o, ks, sep) ==
  {c \in UNION {{[k |-> k, s |-> s] :
                   s \in 1..RunIn(b, o + Len(ks[k]), sep)} :
                k \in {j \in 1..Len(ks) : LitAtI(b, o, ks[j])}} :
     FileTokenEnd(b, o + Len(ks[c.k]) + c.s, <<>>) >= 0}

\* group 1 of the leftmost match of keyword, separator run and file token
RECURSIVE KeywordFrom(_, _, _, _)
KeywordFrom(b, o, ks, sep) ==
  LET cs == KeywordCands(b, o, ks, sep)
      \* earlier alternative first, then the longer separator run
      c  == CHOOSE x \in cs : \A y \in cs :
              \/ x.k < y.k
              \/ x.k = y.k /\ x.s >= y.s
      g  == o + Len(ks[c.k]) + c.s
  IN  IF o >= Len(b) THEN NULL
      ELSE IF cs # {} THEN Slice(b, g, FileTokenEnd(b, g, <<>>))
      ELSE KeywordFrom(b, o + 1, ks, sep)

KeywordPattern(b, ks, sep) == KeywordFrom(b, 0, ks, sep)

\* /(?:create|add|generate|write|save)\s+([a-zA-Z0-9_\-\.\/]+\.(ts|...))/i
VerbPattern(b) == KeywordPattern(b, Verbs, Whitespace)

\* /(?:file|file name|filename)[\s:]+([a-zA-Z0-9_\-\.\/]+\.(ts|...))/i
LabelPattern(b) == KeywordPattern(b, Labels, Whitespace \cup {":"})

\* filenamePatterns, in list order: group 1 of each pattern's match in b
filenamePatterns(b) ==
  <<BoldPattern(b), ColonPattern(b), VerbPattern(b), LabelPattern(b)>>

\* for (const pattern of filenamePatterns) { if (match) { filename = ...; break } }
FirstPatternMatch_NoBreak(ms) ==
  LET hit == {k \in 1..Len(ms) : ms[k] # NULL}
  IN  IF hit = {} THEN <<>> ELSE ms[CHOOSE k \in hit : \A j \in hit : k >= j]

FirstPatternMatch(ms) ==
  LET hit == {k \in 1..Len(ms) : ms[k] # NULL}
  IN  IF hit = {} THEN <<>> ELSE ms[Min(hit)]

\* beforeBlock.toLowerCase().includes('wrangler')
MentionsWrangler(b) == IndexOfI(b, Wrangler, 0) >= 0

\* the language-based defaults of extractCodeBlocks
DefaultFilename_LanguageFirst(b, language) ==
  IF language = Typescript \/ language = Ts THEN SrcIndexTs
  ELSE IF language = Json THEN PackageJson
  ELSE IF MentionsWrangler(b) \/ language = Toml THEN WranglerToml
  ELSE <<>>

DefaultFilename(b, language) ==
  IF MentionsWrangler(b) \/ language = Toml THEN WranglerToml
  ELSE IF language = Typescript \/ language = Ts THEN SrcIndexTs
  ELSE IF language = Json THEN PackageJson
  ELSE <<>>

\* the text the filename of the match m is inferred from
BeforeBlock(t, m) == Slice(t, 0, m.index)

\* the filename of the block of match m
BlockFilename_InferAlways(t, m) ==
  LET language   == OrElse(m.lang, Typescript)
      explicit   == OrElse(m.fname, <<>>)
      b          == BeforeBlock(t, m)
      inferred   == FirstPatternMatch(filenamePatterns(b))
  IN  IF inferred # <<>> THEN inferred
      ELSE IF explicit # <<>> THEN explicit
      ELSE DefaultFilename(b, language)

BlockFilename(t, m) ==
  LET language   == OrElse(m.lang, Typescript)
      explicit   == OrElse(m.fname, <<>>)
      b          == BeforeBlock(t, m)
      inferred   == FirstPatternMatch(filenamePatterns(b))
  IN  IF explicit # <<>> THEN explicit
      ELSE IF inferred # <<>> THEN inferred
      ELSE DefaultFilename(b, language)

\* ------------------------------------------------- fallback, extractConfig

\* s.replace(/```/g, "")
RECURSIVE StripFences(_)
StripFences(t) ==
  LET i == IndexOf(t, Fence, 0)
  IN  IF i < 0 THEN t
      ELSE Slice(t, 0, i) \o StripFences(Slice(t, i + 3, Len(t)))

\* s.replace(/```\w*\n?/g, "")
StripFenceTokens_KeepTag(t) == StripFences(t)

RECURSIVE StripFenceTokens(_)
StripFenceTokens(t) ==
  LET i  == IndexOf(t, Fence, 0)
      e0 == i + 3 + RunIn(t, i + 3, WordChars)
      e  == IF At(t, e0) = "\n" THEN e0 + 1 ELSE e0
  IN  IF i < 0 THEN t
      ELSE Slice(t, 0, i) \o StripFenceTokens(Slice(t, e, Len(t)))

\* text.match(/```[\s\S]*?```/): [index, end] of the match, index -1 if none
FallbackMatch_Overlap(t) ==
  LET i == IndexOf(t, Fence, 0)
      j == IF i < 0 THEN -1 ELSE IndexOf(t, Fence, i + 1)
  IN  IF j < 0 THEN [index |-> -1, end |-> -1] ELSE [index |-> i, end |-> j + 3]

FallbackMatch(t) ==
  LET i == IndexOf(t, Fence, 0)
      j == IF i < 0 THEN -1 ELSE IndexOf(t, Fence, i + 3)
  IN  IF j < 0 THEN [index |-> -1, end |-> -1] ELSE [index |-> i, end |-> j + 3]

\* the block the fallback pushes for the match fm
FallbackBlock(t, fm) ==
  [language |-> Typescript,
   filename |-> SrcIndexTs,
   code     |-> Trim(StripFences(StripFenceTokens(Slice(t, fm.index, fm.end)))),
   order    |-> 0]

\* extractConfig(text)
extractConfig(t) ==
  LET k == IndexOfI(t, WranglerToml, 0)
      a == IF k < 0 THEN -1 ELSE IndexOf(t, Fence, k + Len(WranglerToml))
      b == IF a < 0 THEN -1 ELSE IndexOf(t, Fence, a + 3)
  IN  IF b < 0 THEN NULL
      \* configMatch[0] is Slice(t, k, b + 3); the first replace removes it up
      \* to and including its first marker, the second every marker left
      ELSE Trim(StripFences(Slice(t, a + 3, b + 3)))

\* --------------------------------------------------- preserveOrderedContent

NewLines == <<"\n", "\n">>

RenderCode_NoLanguage(block) ==
  Fence \o <<"\n">> \o block.code \o <<"\n">> \o Fence

\* the text of one code part: optional **filename** header, then the fence
RenderCode(block) ==
  LET filename == OrElse(block.filename, <<"F", "i", "l", "e">>)
      header   == IF filename # <<"F", "i", "l", "e">> /\ filename # SrcIndexTs
                  THEN Stars \o filename \o Stars \o NewLines
                  ELSE <<>>
  IN  header \o Fence \o block.language \o <<"\n">> \o block.code \o <<"\n">> \o Fence

RECURSIVE Reconstruct_OneNewline(_, _, _)
Reconstruct_OneNewline(ps, cbs, i) ==
  IF i > Len(ps) THEN <<>>
  ELSE (IF ps[i].type = "text" THEN ps[i].content
        ELSE RenderCode(cbs[ps[i].order + 1]))
         \o (IF i < Len(ps) THEN <<"\n">> ELSE <<>>)
         \o Reconstruct_OneNewline(ps, cbs, i + 1)

\* the reconstruction loop over parts, from part i on
RECURSIVE Reconstruct(_, _, _)
Reconstruct(ps, cbs, i) ==
  IF i > Len(ps) THEN <<>>
  ELSE LET part == ps[i]
           sep  == IF i < Len(ps) THEN NewLines ELSE <<>>
           out  == IF part.type = "text" THEN part.content \o sep
                   ELSE IF part.order + 1 \in 1..Len(cbs)
                        THEN RenderCode(cbs[part.order + 1]) \o sep
                        ELSE <<>>
       IN  out \o Reconstruct(ps, cbs, i + 1)

\* if (codeBlocks.length === 0) return text.trim()
EmptyExplanation_NoTrim(t) == t

EmptyExplanation(t) == Trim(t)

\* the text part pushed for text.substring(from, to), if it is not blank
TextPart(t, from, to) ==
  IF to > from /\ Trim(Slice(t, from, to)) # <<>>
  THEN << [type |-> "text", content |-> Trim(Slice(t, from, to)), order |-> -1] >>
  ELSE <<>>

\* ------------------------------------------------------------------- inputs
\* The model's replies: every concatenation of at most MaxRaw raw pieces and
\* every concatenation of at most MaxSegs prose and fence segments.

MaxRaw == 4
MaxSegs == 3

RawPieces == {<<Backtick, Backtick, Backtick>>, <<Backtick>>, <<"\n">>, <<"x">>, <<" ">>}

\* a.ts:\n
ColonProse == <<"a", ".", "t", "s", ":", "\n">>
\* Create config.toml\n
VerbProse == <<"C", "r", "e", "a", "t", "e", " ", "c", "o", "n", "f", "i", "g", ".", "t", "o", "m", "l", "\n">>
\* **c.md**\n
BoldProse == <<"*", "*", "c", ".", "m", "d", "*", "*", "\n">>
\* file d.json\n
LabelProse == <<"f", "i", "l", "e", " ", "d", ".", "j", "s", "o", "n", "\n">>
\* see wrangler.toml\n
KeywordProse == <<"s", "e", "e", " ", "w", "r", "a", "n", "g", "l", "e", "r", ".", "t", "o", "m", "l", "\n">>
\* ```\nx\n```\n
PlainFence == <<Backtick, Backtick, Backtick, "\n", "x", "\n", Backtick, Backtick, Backtick, "\n">>
\* ```toml\nname="x"\n```
TomlFence == <<Backtick, Backtick, Backtick, "t", "o", "m", "l", "\n", "n", "a", "m", "e", "=", "\"", "x", "\"", "\n", Backtick, Backtick, Backtick>>
\* ```json\n{}\n```\n
JsonFence == <<Backtick, Backtick, Backtick, "j", "s", "o", "n", "\n", "{", "}", "\n", Backtick, Backtick, Backtick, "\n">>
\* ```js filename="e.js"\nfilename="b"\nx\n```\n
NamedFence == <<Backtick, Backtick, Backtick, "j", "s", " ", "f", "i", "l", "e", "n", "a", "m", "e", "=", "\"", "e", ".", "j", "s", "\"", "\n", "f", "i", "l", "e", "n", "a", "m", "e", "=", "\"", "b", "\"", "\n", "x", "\n", Backtick, Backtick, Backtick, "\n">>
\* ```js\ny\n```\n
JsFence == <<Backtick, Backtick, Backtick, "j", "s", "\n", "y", "\n", Backtick, Backtick, Backtick, "\n">>

Segments == {ColonProse, VerbProse, BoldProse, LabelProse, KeywordProse,
             PlainFence, TomlFence, JsonFence, NamedFence, JsFence}

RECURSIVE Concat(_)
Concat(ss) == IF ss = <<>> THEN <<>> ELSE Head(ss) \o Concat(Tail(ss))

SeqsUpTo(S, n) == UNION {[1..k -> S] : k \in 0..n}

Inputs ==
  {Concat(ss) : ss \in SeqsUpTo(RawPieces, MaxRaw)}
    \cup {Concat(ss) : ss \in SeqsUpTo(Segments, MaxSegs)}

\* ------------------------------------------------------------------ actions

\* order++
NextOrder_Stuck(o) == o

NextOrder(o) == o + 1

\* no request has arrived
RequestInit ==
  /\ request = NULL
  /\ at = "idle"
  /\ pending = {}
  /\ searchAt = "none"
  /\ finished = <<>>
  /\ promptBuilt = FALSE
  /\ tried = <<>>
  /\ modelUsed = "none"
  /\ aiDone = FALSE
  /\ extracted = FALSE
  /\ sent = <<>>
  /\ aiCalls = 0
  /\ retrievals = 0
  /\ writes = 0

\* an empty conversation_messages table
HistoryInit ==
  /\ messages = <<>>
  /\ now = 1
  /\ asked = "none"
  /\ history = <<>>

MaxSavers == 2
MaxSaves == 3

\* an empty project_state table and no save in progress; state 0 is the
\* empty record {} of getProjectState, got -1 stands for no result
ProjectInit ==
  /\ project_state = <<>>
  /\ saving = [p \in 1..MaxSavers |-> [pc |-> "idle", state |-> 0, timestamp |-> 0, existing |-> 0]]
  /\ clock = 1
  /\ issued = 0
  /\ completed = 0
  /\ got = -1

MaxAccepted == 2

\* the constructor: init() calls connectWebSocket()
FrontendInit ==
  /\ ws = "connecting"
  /\ connected = FALSE
  /\ timeoutArmed = TRUE
  /\ reconnectArmed = FALSE
  /\ isGenerating = FALSE
  /\ accepted = <<>>
  /\ wsOut = <<>>
  /\ httpOut = <<>>
  /\ awaiting = "none"

MaxChats == 5

\* no chat request yet, and the frontend's conversationId = null
ChatInit ==
  /\ chat = [path |-> "none", given |-> "absent"]
  /\ chatAt = "idle"
  /\ convId = "unset"
  /\ invocation = 0
  /\ passed = <<>>
  /\ quoted = <<>>
  /\ returned = "none"
  /\ clientConv = "absent"
  /\ served = 0

MaxFetches == 3

\* a new agent instance: dbInitialized = false, no fetch call yet, no table
DbInit ==
  /\ dbInitialized = FALSE
  /\ fetches = [f \in 1..MaxFetches |-> "none"]
  /\ initCalls = 0
  /\ schema = {}

MaxDocs == 5

\* no POST /populate yet, and an empty vector index
PopulateInit ==
  /\ popAt = "idle"
  /\ doc = 0
  /\ chunks = {}
  /\ index = {}
  /\ popSent = "none"

Init ==
  /\ text = <<>>
  /\ pc = "idle"
  /\ reLastIndex = 0
  /\ blocks = <<>>
  /\ order = 0
  /\ spans = <<>>
  /\ config = NULL
  /\ lastIndex = 0
  /\ parts = <<>>
  /\ codeIndex = 0
  /\ explanation = NULL
  /\ RequestInit
  /\ HistoryInit
  /\ ProjectInit
  /\ FrontendInit
  /\ ChatInit
  /\ DbInit
  /\ PopulateInit

\* const generatedCode = response.response || "": the reply of the model
\* call arrives and extractCodeBlocks starts on it
Receive ==
  /\ UNCHANGED notExtract
  /\ pc = "idle"
  /\ text' \in Inputs
  /\ pc' = "scan"
  /\ UNCHANGED <<reLastIndex, blocks, order, spans, config, lastIndex, parts,
                 codeIndex, explanation>>

\* one iteration of the while loop of extractCodeBlocks
ScanMatch ==
  /\ UNCHANGED notExtract
  /\ pc = "scan"
  /\ LET m == Exec(text, reLastIndex)
     IN  /\ m.index >= 0
         /\ blocks' = Append(blocks,
                        [language |-> OrElse(m.lang, Typescript),
                         filename |-> BlockFilename(text, m),
                         code     |-> Trim(m.body),
                         order    |-> order])
         /\ order' = NextOrder(order)
         /\ spans' = Append(spans, [index |-> m.index, end |-> m.end,
                                    explicit |-> OrElse(m.fname, <<>>) # <<>>,
                                    fallback |-> FALSE])
         /\ reLastIndex' = ExecLastIndex(m)
  /\ UNCHANGED <<text, pc, config, lastIndex, parts, codeIndex, explanation>>

\* the loop ends and the fallback does not apply: return blocks
ScanEnd ==
  /\ UNCHANGED notExtract
  /\ pc = "scan"
  /\ Exec(text, reLastIndex).index < 0
  /\ ~(Len(blocks) = 0 /\ HasFence(text))
  /\ pc' = "config"
  /\ reLastIndex' = 0
  /\ UNCHANGED <<text, blocks, order, spans, config, lastIndex, parts,
                 codeIndex, explanation>>

\* the loop ends with no block although the text has a marker
Fallback ==
  /\ UNCHANGED notExtract
  /\ pc = "scan"
  /\ Exec(text, reLastIndex).index < 0
  /\ Len(blocks) = 0 /\ HasFence(text)
  /\ LET fm == FallbackMatch(text)
     IN  IF fm.index >= 0
         THEN /\ blocks' = Append(blocks, FallbackBlock(text, fm))
              /\ spans' = Append(spans, [index |-> fm.index, end |-> fm.end,
                                         explicit |-> FALSE, fallback |-> TRUE])
         ELSE UNCHANGED <<blocks, spans>>
  /\ pc' = "config"
  /\ reLastIndex' = 0
  /\ UNCHANGED <<text, order, config, lastIndex, parts, codeIndex, explanation>>

\* const config = this.extractConfig(generatedCode), then the call of
\* preserveOrderedContent with its fresh regex and locals
ExtractConfig ==
  /\ UNCHANGED notExtract
  /\ pc = "config"
  /\ config' = extractConfig(text)
  /\ pc' = "preserve"
  /\ reLastIndex' = 0
  /\ lastIndex' = 0
  /\ parts' = <<>>
  /\ codeIndex' = 0
  /\ UNCHANGED <<text, blocks, order, spans, explanation>>

\* if (codeBlocks.length === 0) return text.trim()
PreserveEmpty ==
  /\ UNCHANGED notExtract
  /\ pc = "preserve"
  /\ Len(blocks) = 0
  /\ explanation' = EmptyExplanation(text)
  /\ pc' = "done"
  /\ UNCHANGED <<text, reLastIndex, blocks, order, spans, config, lastIndex,
                 parts, codeIndex>>

\* one iteration of the while loop of preserveOrderedContent
PreserveMatch ==
  /\ UNCHANGED notExtract
  /\ pc = "preserve"
  /\ Len(blocks) > 0
  /\ LET m == Exec(text, reLastIndex)
     IN  /\ m.index >= 0
         /\ parts' = parts \o TextPart(text, lastIndex, m.index)
                       \o (IF codeIndex < Len(blocks)
                           THEN << [type |-> "code", content |-> <<>>,
                                    order |-> codeIndex] >>
                           ELSE <<>>)
         /\ codeIndex' = IF codeIndex < Len(blocks) THEN codeIndex + 1 ELSE codeIndex
         /\ lastIndex' = m.end
         /\ reLastIndex' = ExecLastIndex(m)
  /\ UNCHANGED <<text, pc, blocks, order, spans, config, explanation>>

\* the loop ends: the remaining text, the reconstruction, and the return
PreserveFinish ==
  /\ UNCHANGED notExtract
  /\ pc = "preserve"
  /\ Len(blocks) > 0
  /\ Exec(text, reLastIndex).index < 0
  /\ parts' = parts \o TextPart(text, lastIndex, Len(text))
  /\ explanation' = Trim(Reconstruct(parts', blocks, 1))
  /\ pc' = "done"
  /\ reLastIndex' = 0
  /\ UNCHANGED <<text, blocks, order, spans, config, lastIndex, codeIndex>>

Next ==
  \/ Receive
  \/ ScanMatch
  \/ ScanEnd
  \/ Fallback
  \/ ExtractConfig
  \/ PreserveEmpty
  \/ PreserveMatch
  \/ PreserveFinish

Spec == Init /\ [][Next]_vars

\* ----------------------------------------------------------------- requests
\* One request through fetch (handleChat, handleCodeGeneration,
\* handleDocumentationSearch) or webSocketMessage (processChatMessage,
\* processCodeGeneration). Each action runs the handler from one await to
\* the next.

Kinds == {"wsChat", "wsGenerate", "httpChat", "httpGenerate", "httpSearch"}

\* the required field of the body (message, prompt, query): absent, the
\* empty string, or a non-empty string
Fields == {"missing", "empty", "present"}

IsWs(k) == k \in {"wsChat", "wsGenerate"}
IsChat(k) == k \in {"wsChat", "httpChat"}
IsGenerate(k) == k \in {"wsGenerate", "httpGenerate"}

\* the second operand of the Promise.all
Lookup(k) == IF IsChat(k) THEN "history" ELSE "state"

Llama33 == "@cf/meta/llama-3.3-70b-instruct-fp8-fast"
Llama31 == "@cf/meta/llama-3.1-8b-instruct"

\* the chain without its last catch: no prompt-format invocation
Invocations_NoPromptFormat ==
  << [model |-> Llama33, format |-> "messages"],
     [model |-> Llama31, format |-> "messages"] >>

\* the three invocations of the text generation, in the order of the code
Invocations ==
  << [model |-> Llama33, format |-> "messages"],
     [model |-> Llama31, format |-> "messages"],
     [model |-> Llama31, format |-> "prompt"] >>

\* a message or a request arrives
Arrive ==
  /\ at = "idle"
  /\ \E k \in Kinds, f \in Fields : request' = [kind |-> k, field |-> f]
  /\ at' = IF IsWs(request'.kind) THEN "dispatch" ELSE "json"
  /\ UNCHANGED <<pending, searchAt, finished, promptBuilt, tried, modelUsed,
                 aiDone, extracted, sent, aiCalls, retrievals, writes>>
  /\ UNCHANGED notRequest

\* webSocketMessage dispatches on data.type: the first send, then the two
\* operands of Promise.all run to their first await
WsStart ==
  /\ at = "dispatch"
  /\ sent' = Append(sent, IF request.kind = "wsChat" THEN "thinking"
                          ELSE "analyzing")
  /\ pending' = {"search", Lookup(request.kind)}
  /\ searchAt' = "embed"
  /\ aiCalls' = aiCalls + 1
  /\ at' = "lookups"
  /\ UNCHANGED <<request, finished, promptBuilt, tried, modelUsed, aiDone,
                 extracted, retrievals, writes>>
  /\ UNCHANGED notRequest

\* if (!message) / if (!prompt): status 400
HttpReject ==
  /\ at = "json"
  /\ request.kind \in {"httpChat", "httpGenerate"}
  /\ request.field # "present"
  /\ sent' = Append(sent, "400")
  /\ at' = "done"
  /\ UNCHANGED <<request, pending, searchAt, finished, promptBuilt, tried,
                 modelUsed, aiDone, extracted, aiCalls, retrievals, writes>>
  /\ UNCHANGED notRequest

\* the field is there: the two operands of Promise.all start
HttpAccept ==
  /\ at = "json"
  /\ request.kind \in {"httpChat", "httpGenerate"}
  /\ request.field = "present"
  /\ pending' = {"search", Lookup(request.kind)}
  /\ searchAt' = "embed"
  /\ aiCalls' = aiCalls + 1
  /\ at' = "lookups"
  /\ UNCHANGED <<request, finished, promptBuilt, tried, modelUsed, aiDone,
                 extracted, sent, retrievals, writes>>
  /\ UNCHANGED notRequest

\* handleDocumentationSearch: const { query } = body, then the search
HttpSearch ==
  /\ at = "json"
  /\ request.kind = "httpSearch"
  /\ pending' = {"search"}
  /\ searchAt' = "embed"
  /\ aiCalls' = aiCalls + 1
  /\ at' = "lookups"
  /\ UNCHANGED <<request, finished, promptBuilt, tried, modelUsed, aiDone,
                 extracted, sent, retrievals, writes>>
  /\ UNCHANGED notRequest

\* searchDocumentation: the embedding call returns a vector, and the index
\* is queried, or it returns none or throws, and the search ends
Embedded ==
  /\ searchAt = "embed"
  /\ \E ok \in BOOLEAN :
       IF ok
       THEN /\ searchAt' = "query"
            /\ retrievals' = retrievals + 1
            /\ UNCHANGED <<pending, finished>>
       ELSE /\ searchAt' = "done"
            /\ pending' = pending \ {"search"}
            /\ finished' = Append(finished, "search")
            /\ UNCHANGED retrievals
  /\ UNCHANGED <<request, at, promptBuilt, tried, modelUsed, aiDone,
                 extracted, sent, aiCalls, writes>>
  /\ UNCHANGED notRequest

\* searchDocumentation: the index query returns or throws; the search ends
Queried ==
  /\ searchAt = "query"
  /\ searchAt' = "done"
  /\ pending' = pending \ {"search"}
  /\ finished' = Append(finished, "search")
  /\ UNCHANGED <<request, at, promptBuilt, tried, modelUsed, aiDone,
                 extracted, sent, aiCalls, retrievals, writes>>
  /\ UNCHANGED notRequest

\* getConversationHistory or getProjectState returns (its catch makes it
\* return on an error, too)
LookupDone ==
  /\ at = "lookups"
  /\ Lookup(request.kind) \in pending
  /\ pending' = pending \ {Lookup(request.kind)}
  /\ finished' = Append(finished, Lookup(request.kind))
  /\ UNCHANGED <<request, at, searchAt, promptBuilt, tried, modelUsed, aiDone,
                 extracted, sent, aiCalls, retrievals, writes>>
  /\ UNCHANGED notRequest

AllSettled_Race(p) == Cardinality(p) <= 1

\* await Promise.all([...]) resumes when no operand is pending
AllSettled(p) == p = {}

\* handleDocumentationSearch returns the context
SearchRespond ==
  /\ at = "lookups"
  /\ request.kind = "httpSearch"
  /\ AllSettled(pending)
  /\ sent' = Append(sent, "200")
  /\ at' = "done"
  /\ UNCHANGED <<request, pending, searchAt, finished, promptBuilt, tried,
                 modelUsed, aiDone, extracted, aiCalls, retrievals, writes>>
  /\ UNCHANGED notRequest

\* a catch that only logs
SendError_Logged(out, k) == out

\* an exception leaves the handler: the catch of webSocketMessage sends the
\* error message, the catch of handleChat / handleCodeGeneration answers 500
SendError(out, k) == Append(out, IF IsWs(k) THEN "error" ELSE "500")

\* after the Promise.all: the system prompt is built and the first
\* invocation is issued; processChatMessage reads message.length first,
\* which throws for an absent message, and webSocketMessage sends the error
BuildPrompt ==
  /\ at = "lookups"
  /\ request.kind # "httpSearch"
  /\ AllSettled(pending)
  /\ promptBuilt' = TRUE
  /\ IF request.kind = "wsChat" /\ request.field = "missing"
     THEN /\ sent' = SendError(sent, request.kind)
          /\ at' = "done"
          /\ UNCHANGED <<tried, modelUsed, aiCalls>>
     ELSE /\ sent' = IF request.kind = "wsGenerate"
                     THEN Append(sent, "generating") ELSE sent
          /\ modelUsed' = Llama33
          /\ tried' = <<1>>
          /\ aiCalls' = aiCalls + 1
          /\ at' = "model"
  /\ UNCHANGED <<request, pending, searchAt, finished, aiDone, extracted,
                 retrievals, writes>>
  /\ UNCHANGED notRequest

\* the invocation in flight returns
ModelOk ==
  /\ at = "model"
  /\ aiDone' = TRUE
  /\ at' = "generated"
  /\ UNCHANGED <<request, pending, searchAt, finished, promptBuilt, tried,
                 modelUsed, extracted, sent, aiCalls, retrievals, writes>>
  /\ UNCHANGED notRequest

\* the invocation in flight throws: the catch issues the next one, and the
\* throw of the last one leaves the handler (status 500, or the error
\* message of webSocketMessage)
ModelFail ==
  /\ at = "model"
  /\ IF Len(tried) < Len(Invocations)
     THEN /\ tried' = Append(tried, Len(tried) + 1)
          /\ modelUsed' = Llama31
          /\ aiCalls' = aiCalls + 1
          /\ UNCHANGED <<sent, at>>
     ELSE /\ sent' = SendError(sent, request.kind)
          /\ at' = "done"
          /\ UNCHANGED <<tried, modelUsed, aiCalls>>
  /\ UNCHANGED <<request, pending, searchAt, finished, promptBuilt, aiDone,
                 extracted, retrievals, writes>>
  /\ UNCHANGED notRequest

\* processChatMessage: Promise.all of the two saveConversationMessage calls
ChatSave ==
  /\ at = "generated"
  /\ request.kind = "wsChat"
  /\ writes' = writes + 2
  /\ at' = "saving"
  /\ UNCHANGED <<request, pending, searchAt, finished, promptBuilt, tried,
                 modelUsed, aiDone, extracted, sent, aiCalls, retrievals>>
  /\ UNCHANGED notRequest

\* processChatMessage: the response message
ChatRespond ==
  /\ at = "saving"
  /\ sent' = Append(sent, "response")
  /\ at' = "done"
  /\ UNCHANGED <<request, pending, searchAt, finished, promptBuilt, tried,
                 modelUsed, aiDone, extracted, aiCalls, retrievals, writes>>
  /\ UNCHANGED notRequest

\* handleChat: await saveConversationMessage(convId, "user", message)
HttpChatSaveUser ==
  /\ at = "generated"
  /\ request.kind = "httpChat"
  /\ writes' = writes + 1
  /\ at' = "saveUser"
  /\ UNCHANGED <<request, pending, searchAt, finished, promptBuilt, tried,
                 modelUsed, aiDone, extracted, sent, aiCalls, retrievals>>
  /\ UNCHANGED notRequest

\* handleChat: await saveConversationMessage(convId, "assistant", ...)
HttpChatSaveAssistant ==
  /\ at = "saveUser"
  /\ writes' = writes + 1
  /\ at' = "saveAssistant"
  /\ UNCHANGED <<request, pending, searchAt, finished, promptBuilt, tried,
                 modelUsed, aiDone, extracted, sent, aiCalls, retrievals>>
  /\ UNCHANGED notRequest

\* handleChat: the response
HttpChatRespond ==
  /\ at = "saveAssistant"
  /\ sent' = Append(sent, "200")
  /\ at' = "done"
  /\ UNCHANGED <<request, pending, searchAt, finished, promptBuilt, tried,
                 modelUsed, aiDone, extracted, aiCalls, retrievals, writes>>
  /\ UNCHANGED notRequest

\* extractCodeBlocks, extractConfig and preserveOrderedContent on the
\* generated text, then the complete message and the call of
\* saveProjectState, or the response of handleCodeGeneration
Extract ==
  /\ at = "generated"
  /\ IsGenerate(request.kind)
  /\ extracted' = TRUE
  /\ IF IsWs(request.kind)
     THEN /\ sent' = Append(sent, "complete")
          /\ at' = "saveState"
     ELSE /\ sent' = Append(sent, "200")
          /\ at' = "done"
  /\ UNCHANGED <<request, pending, searchAt, finished, promptBuilt, tried,
                 modelUsed, aiDone, aiCalls, retrievals, writes>>
  /\ UNCHANGED notRequest

\* saveProjectState: the UPDATE or INSERT after its SELECT
SaveState ==
  /\ at = "saveState"
  /\ writes' = writes + 1
  /\ at' = "done"
  /\ UNCHANGED <<request, pending, searchAt, finished, promptBuilt, tried,
                 modelUsed, aiDone, extracted, sent, aiCalls, retrievals>>
  /\ UNCHANGED notRequest

NextRequest ==
  \/ Arrive
  \/ WsStart
  \/ HttpReject
  \/ HttpAccept
  \/ HttpSearch
  \/ Embedded
  \/ Queried
  \/ LookupDone
  \/ SearchRespond
  \/ BuildPrompt
  \/ ModelOk
  \/ ModelFail
  \/ ChatSave
  \/ ChatRespond
  \/ HttpChatSaveUser
  \/ HttpChatSaveAssistant
  \/ HttpChatRespond
  \/ Extract
  \/ SaveState

SpecRequest == Init /\ [][NextRequest]_vars

\* ------------------------------------------------------ conversation store
\* saveConversationMessage and getConversationHistory on the
\* conversation_messages table. A row is [conv, role, created]; its place
\* in messages is its insertion order (the AUTOINCREMENT id).

MaxExchanges == 6

\* LIMIT 10
HistoryLimit == 10

Conversations == {"c1", "c2"}

\* Array.prototype.reverse
Reverse(q) == [i \in 1..Len(q) |-> q[Len(q) + 1 - i]]

\* ORDER BY created_at DESC: the listings of the rows S by non-increasing
\* created_at; SQL leaves the order of rows with equal created_at open
RECURSIVE Orders(_)
Orders(S) ==
  IF S = {} THEN {<<>>}
  ELSE LET top == {i \in S : \A j \in S : messages[i].created >= messages[j].created}
       IN  UNION {{<<i>> \o rest : rest \in Orders(S \ {i})} : i \in top}

\* the results getConversationHistory(c) can return: the first LIMIT rows
\* of a listing, reversed
QueryResults(c) ==
  LET rows == {i \in 1..Len(messages) : messages[i].conv = c}
  IN  {Reverse(SubSeq(q, 1, IF Len(q) < HistoryLimit THEN Len(q) ELSE HistoryLimit)) :
         q \in Orders(rows)}

\* one chat exchange is stored: the user message, then the assistant
\* message. The two Date.now() values are equal when both INSERTs are issued
\* in the same millisecond (the Promise.all of processChatMessage), or the
\* second is later (handleChat awaits the first save); the next exchange
\* follows a model call and so is later.
SaveExchange ==
  /\ Len(messages) < 2 * MaxExchanges
  /\ \E c \in Conversations, tied \in BOOLEAN :
       LET second == IF tied THEN now ELSE now + 1
       IN  /\ messages' = messages \o
                 << [conv |-> c, role |-> "user", created |-> now],
                    [conv |-> c, role |-> "assistant", created |-> second] >>
           /\ now' = second + 1
  /\ asked' = "none"
  /\ history' = <<>>
  /\ UNCHANGED notHistory

\* getConversationHistory(c)
GetHistory ==
  /\ asked = "none"
  /\ \E c \in Conversations :
       /\ asked' = c
       /\ history' \in QueryResults(c)
  /\ UNCHANGED <<messages, now>>
  /\ UNCHANGED notHistory

NextHistory ==
  \/ SaveExchange
  \/ GetHistory

SpecHistory == Init /\ [][NextHistory]_vars

\* ------------------------------------------------------------ chat requests
\* processChatMessage (WebSocket) and handleChat (POST /chat) against the
\* conversation store, one request after the other. A conversationId that
\* is absent (or null, as the frontend sends at first) is falsy.

\* what the client puts in conversationId: nothing, the id of its last
\* response as the frontend does, or an id of its own choosing
Given == {"absent", "default", clientConv}

\* `conv_${Date.now()}`
FreshId == "conv_" \o ToString(now)

\* conversationHistory.slice(-6)
RecentHistory(h) == SubSeq(h, IF Len(h) > 6 THEN Len(h) - 5 ELSE 1, Len(h))

\* the conversation whose history the request reads: convId in
\* processChatMessage, conversationId || "default" in handleChat
ReadConv(path, given) ==
  IF path = "ws" THEN (IF given = "absent" THEN FreshId ELSE given)
  ELSE (IF given = "absent" THEN "default" ELSE given)

\* the stored rows in the messages array of invocation n: the whole
\* conversationHistory in the two chat-format invocations, none in the
\* prompt-format one
InMessages(n, h) == IF n = 3 THEN <<>> ELSE h

\* the stored rows quoted in the system prompt: recentHistory in
\* processChatMessage, none in handleChat
InPrompt(path, h) == IF path = "ws" THEN RecentHistory(h) ELSE <<>>

\* a chat message arrives: processChatMessage fixes convId at once and
\* handleChat after the model call; both issue the history query
ChatArrive ==
  /\ chatAt = "idle"
  /\ served < MaxChats
  /\ \E path \in {"ws", "http"}, given \in Given :
       /\ chat' = [path |-> path, given |-> given]
       /\ convId' = IF path = "ws" THEN ReadConv(path, given) ELSE "unset"
       /\ asked' = ReadConv(path, given)
  /\ history' = <<>>
  /\ chatAt' = "read"
  /\ invocation' = 0
  /\ passed' = <<>>
  /\ quoted' = <<>>
  /\ returned' = "none"
  /\ UNCHANGED <<messages, now, clientConv, served>>
  /\ UNCHANGED notChat

\* the history query returns, the system prompt is built and the first
\* invocation is issued
ChatInvoke ==
  /\ chatAt = "read"
  /\ \E h \in QueryResults(asked) :
       /\ history' = h
       /\ passed' = InMessages(1, h)
       /\ quoted' = InPrompt(chat.path, h)
  /\ invocation' = 1
  /\ chatAt' = "model"
  /\ UNCHANGED <<messages, now, asked, chat, convId, returned, clientConv,
                 served>>
  /\ UNCHANGED notChat

\* the invocation in flight throws: the next one is issued, or the request
\* ends with the error and nothing stored
ChatModelFail ==
  /\ chatAt = "model"
  /\ IF invocation < 3
     THEN /\ invocation' = invocation + 1
          /\ passed' = InMessages(invocation + 1, history)
          /\ UNCHANGED <<chatAt, served>>
     ELSE /\ chatAt' = "idle"
          /\ served' = served + 1
          /\ UNCHANGED <<invocation, passed>>
  /\ UNCHANGED <<messages, now, asked, history, chat, convId, quoted,
                 returned, clientConv>>
  /\ UNCHANGED notChat

\* the invocation in flight returns: the two messages are saved under
\* convId (handleChat computes it now) with equal or increasing Date.now(),
\* and the response carries convId, which the frontend keeps
ChatModelOk ==
  /\ chatAt = "model"
  /\ \E tied \in BOOLEAN :
       LET id     == IF chat.path = "ws" THEN convId
                     ELSE (IF chat.given = "absent" THEN FreshId ELSE chat.given)
           second == IF tied THEN now ELSE now + 1
       IN  /\ convId' = id
           /\ messages' = messages \o
                 << [conv |-> id, role |-> "user", created |-> now],
                    [conv |-> id, role |-> "assistant", created |-> second] >>
           /\ now' = second + 1
           /\ returned' = id
           /\ clientConv' = id
  /\ chatAt' = "idle"
  /\ served' = served + 1
  /\ UNCHANGED <<asked, history, chat, invocation, passed, quoted>>
  /\ UNCHANGED notChat

NextChat ==
  \/ ChatArrive
  \/ ChatInvoke
  \/ ChatModelFail
  \/ ChatModelOk

SpecChat == Init /\ [][NextChat]_vars

\* ------------------------------------------------- database initialization
\* fetch awaits ensureDatabaseInitialized, which awaits initializeDatabase
\* when dbInitialized is false and sets the field after it returned.
\* initializeDatabase awaits three statements in one try; other fetch calls
\* of the same agent run while a call is suspended at an await.

\* the statements of initializeDatabase, in order
Statements == <<"conversation_messages", "idx_conversation_id", "project_state">>

\* the position of a call suspended at statement n
AtStatement(n) == IF n = 1 THEN "init1" ELSE IF n = 2 THEN "init2" ELSE "init3"

\* the statement a call is suspended at, 0 when at none
StatementAt(a) ==
  IF a = "init1" THEN 1 ELSE IF a = "init2" THEN 2 ELSE IF a = "init3" THEN 3 ELSE 0

\* if (!this.dbInitialized): the test of ensureDatabaseInitialized
MustInitialize(flag) == ~flag

\* a fetch call starts: it calls initializeDatabase, which issues its first
\* statement, or finds the field set and goes on to its route
FetchStart(f) ==
  /\ fetches[f] = "none"
  /\ IF MustInitialize(dbInitialized)
     THEN /\ initCalls' = initCalls + 1
          /\ fetches' = [fetches EXCEPT ![f] = AtStatement(1)]
     ELSE /\ fetches' = [fetches EXCEPT ![f] = "route"]
          /\ UNCHANGED initCalls
  /\ UNCHANGED <<dbInitialized, schema>>
  /\ UNCHANGED notInit

\* a statement of initializeDatabase returns (CREATE ... IF NOT EXISTS) and
\* the next one is issued, or it throws and the catch ends the function;
\* when the function returns, ensureDatabaseInitialized sets the field
InitStep(f) ==
  /\ StatementAt(fetches[f]) > 0
  /\ \E ok \in BOOLEAN :
       LET n == StatementAt(fetches[f])
       IN  /\ schema' = IF ok THEN schema \cup {Statements[n]} ELSE schema
           /\ IF ok /\ n < Len(Statements)
              THEN /\ fetches' = [fetches EXCEPT ![f] = AtStatement(n + 1)]
                   /\ UNCHANGED dbInitialized
              ELSE /\ fetches' = [fetches EXCEPT ![f] = "route"]
                   /\ dbInitialized' = TRUE
  /\ UNCHANGED initCalls
  /\ UNCHANGED notInit

\* the rest of fetch: the route's handler answers
FetchAnswer(f) ==
  /\ fetches[f] = "route"
  /\ fetches' = [fetches EXCEPT ![f] = "done"]
  /\ UNCHANGED <<dbInitialized, initCalls, schema>>
  /\ UNCHANGED notInit

NextDb ==
  \/ \E f \in 1..MaxFetches : FetchStart(f)
  \/ \E f \in 1..MaxFetches : InitStep(f)
  \/ \E f \in 1..MaxFetches : FetchAnswer(f)

SpecDb == Init /\ [][NextDb]_vars

\* ----------------------------------------------------------- POST /populate
\* The /populate route of the worker awaits populateVectorize and answers
\* success, or success: false with status 500 from its catch.
\* populateVectorize embeds the documents one by one, each in its own try,
\* and inserts the chunks in a try of its own.

\* the response of the route: threw tells whether populateVectorize threw
\* (it never does: each of its awaits is inside a try)
PopulateResponse(threw) == IF threw THEN "500" ELSE "success"

\* the request arrives and the first embedding call is issued
PopulateStart ==
  /\ popAt = "idle"
  /\ popAt' = "embed"
  /\ doc' = 1
  /\ UNCHANGED <<chunks, index, popSent>>
  /\ UNCHANGED notPopulate

\* the embedding call for the document returns a vector (a chunk is
\* pushed), returns no data, or throws (caught and logged). After the last
\* document the insert is issued if there is a chunk; otherwise the
\* function returns and the route answers.
Embed ==
  /\ popAt = "embed"
  /\ \E outcome \in {"vector", "empty", "throw"} :
       chunks' = IF outcome = "vector" THEN chunks \cup {doc} ELSE chunks
  /\ IF doc < MaxDocs
     THEN /\ doc' = doc + 1
          /\ UNCHANGED <<popAt, popSent>>
     ELSE /\ UNCHANGED doc
          /\ IF chunks' # {}
             THEN /\ popAt' = "insert"
                  /\ UNCHANGED popSent
             ELSE /\ popAt' = "done"
                  /\ popSent' = PopulateResponse(FALSE)
  /\ UNCHANGED index
  /\ UNCHANGED notPopulate

\* VECTORIZE_INDEX.insert(chunks) returns or throws (caught and logged);
\* the function returns and the route answers
Insert ==
  /\ popAt = "insert"
  /\ \E ok \in BOOLEAN :
       /\ index' = IF ok THEN index \cup chunks ELSE index
       /\ popSent' = PopulateResponse(FALSE)
  /\ popAt' = "done"
  /\ UNCHANGED <<doc, chunks>>
  /\ UNCHANGED notPopulate

NextPopulate ==
  \/ PopulateStart
  \/ Embed
  \/ Insert

SpecPopulate == Init /\ [][NextPopulate]_vars

\* ------------------------------------------------------------ project state
\* getProjectState and saveProjectState on the project_state table. A row
\* is [id, state, updated_at]. Requests run concurrently between their
\* awaits: a save is its SELECT, then its UPDATE or INSERT.

\* ORDER BY updated_at DESC LIMIT 1: the rows the query can return first
Latest ==
  {i \in 1..Len(project_state) :
     \A j \in 1..Len(project_state) :
       project_state[i].updated_at >= project_state[j].updated_at}

\* saveProjectState up to the await of its SELECT: the state to save (the
\* calls save the states 1, 2, ...), Date.now(), and the id the SELECT finds
SaveSelect(p) ==
  /\ saving[p].pc = "idle"
  /\ issued < MaxSaves
  /\ issued' = issued + 1
  /\ \E e \in (IF Latest = {} THEN {0} ELSE {project_state[i].id : i \in Latest}) :
       saving' = [saving EXCEPT ![p] =
                    [pc |-> "selected", state |-> issued + 1,
                     timestamp |-> clock, existing |-> e]]
  /\ got' = -1
  /\ UNCHANGED <<project_state, clock, completed>>
  /\ UNCHANGED notProject

\* saveProjectState after the SELECT: UPDATE ... WHERE id, or INSERT
SaveWrite(p) ==
  /\ saving[p].pc = "selected"
  /\ project_state' =
       IF saving[p].existing # 0
       THEN [i \in 1..Len(project_state) |->
               IF project_state[i].id = saving[p].existing
               THEN [id |-> project_state[i].id, state |-> saving[p].state,
                     updated_at |-> saving[p].timestamp]
               ELSE project_state[i]]
       ELSE Append(project_state,
                   [id |-> Len(project_state) + 1, state |-> saving[p].state,
                    updated_at |-> saving[p].timestamp])
  /\ completed' = saving[p].state
  /\ saving' = [saving EXCEPT ![p].pc = "idle"]
  /\ got' = -1
  /\ UNCHANGED <<clock, issued>>
  /\ UNCHANGED notProject

\* time passes
ClockTick ==
  /\ clock <= issued
  /\ clock' = clock + 1
  /\ UNCHANGED <<project_state, saving, issued, completed, got>>
  /\ UNCHANGED notProject

\* getProjectState: the state of the first row, or {} for no row
GetProjectState ==
  /\ got = -1
  /\ got' \in (IF Latest = {} THEN {0} ELSE {project_state[i].state : i \in Latest})
  /\ UNCHANGED <<project_state, saving, clock, issued, completed>>
  /\ UNCHANGED notProject

NextProject ==
  \/ \E p \in 1..MaxSavers : SaveSelect(p)
  \/ \E p \in 1..MaxSavers : SaveWrite(p)
  \/ ClockTick
  \/ GetProjectState

SpecProject == Init /\ [][NextProject]_vars

\* ----------------------------------------------------------------- frontend
\* app.js: the socket's events, the two timers, the two user actions and
\* the answers.

\* ws.onopen
WsOpen ==
  /\ ws = "connecting"
  /\ ws' = "open"
  /\ connected' = TRUE
  /\ UNCHANGED <<timeoutArmed, reconnectArmed, isGenerating, accepted, wsOut,
                 httpOut, awaiting>>
  /\ UNCHANGED notFrontend

\* ws.onerror and ws.onclose of a socket that never opened: this.ws = null
WsFail ==
  /\ ws = "connecting"
  /\ ~connected
  /\ ws' = "null"
  /\ UNCHANGED <<connected, timeoutArmed, reconnectArmed, isGenerating,
                 accepted, wsOut, httpOut, awaiting>>
  /\ UNCHANGED notFrontend

\* the closing handshake of an open socket begins
WsClosing ==
  /\ ws = "open"
  /\ ws' = "closing"
  /\ UNCHANGED <<connected, timeoutArmed, reconnectArmed, isGenerating,
                 accepted, wsOut, httpOut, awaiting>>
  /\ UNCHANGED notFrontend

\* ws.onclose of a socket that had opened: the reconnect timer is set. The
\* handler does nothing else; the answer to a request sent on this socket
\* can no longer arrive (the server answers on the socket it was asked on)
WsClose ==
  /\ ws \in {"open", "closing"}
  /\ ws' = "closed"
  /\ reconnectArmed' = TRUE
  /\ awaiting' = IF awaiting = "ws" THEN "lost" ELSE awaiting
  /\ UNCHANGED <<connected, timeoutArmed, isGenerating, accepted, wsOut,
                 httpOut>>
  /\ UNCHANGED notFrontend

\* the 2 s timer: a socket still connecting is closed and dropped
ConnectTimeout ==
  /\ timeoutArmed
  /\ timeoutArmed' = FALSE
  /\ ws' = IF ~connected /\ ws = "connecting" THEN "null" ELSE ws
  /\ UNCHANGED <<connected, reconnectArmed, isGenerating, accepted, wsOut,
                 httpOut, awaiting>>
  /\ UNCHANGED notFrontend

\* the 3 s timer: connectWebSocket() again; new WebSocket may throw
Reconnect ==
  /\ reconnectArmed
  /\ reconnectArmed' = FALSE
  /\ \E thrown \in BOOLEAN :
       IF thrown
       THEN ws' = "null" /\ UNCHANGED <<connected, timeoutArmed>>
       ELSE ws' = "connecting" /\ connected' = FALSE /\ timeoutArmed' = TRUE
  /\ UNCHANGED <<isGenerating, accepted, wsOut, httpOut, awaiting>>
  /\ UNCHANGED notFrontend

UseWebSocket_AnySocket(w) == w # "null"

\* if (this.ws && this.ws.readyState === WebSocket.OPEN)
UseWebSocket(w) == w = "open"

\* sendMessage ("chat") or generateCode ("generate") with a non-empty input
\* while no request is in flight: the request is accepted and sent
Send(kind) ==
  /\ ~isGenerating
  /\ Len(accepted) < MaxAccepted
  /\ isGenerating' = TRUE
  /\ accepted' = Append(accepted, [kind |-> kind, ws |-> ws])
  /\ IF UseWebSocket(ws)
     THEN /\ wsOut' = Append(wsOut, Len(accepted) + 1)
          /\ awaiting' = "ws"
          /\ UNCHANGED httpOut
     ELSE /\ httpOut' = Append(httpOut, Len(accepted) + 1)
          /\ awaiting' = "http"
          /\ UNCHANGED wsOut
  /\ UNCHANGED <<ws, connected, timeoutArmed, reconnectArmed>>
  /\ UNCHANGED notFrontend

\* handleWebSocketMessage for a response, complete or error message
WsAnswer ==
  /\ awaiting = "ws"
  /\ ws = "open"
  /\ isGenerating' = FALSE
  /\ awaiting' = "none"
  /\ UNCHANGED <<ws, connected, timeoutArmed, reconnectArmed, accepted, wsOut,
                 httpOut>>
  /\ UNCHANGED notFrontend

\* sendMessageHTTP / generateCodeHTTP: the fetch returns or fails
HttpAnswer ==
  /\ awaiting = "http"
  /\ isGenerating' = FALSE
  /\ awaiting' = "none"
  /\ UNCHANGED <<ws, connected, timeoutArmed, reconnectArmed, accepted, wsOut,
                 httpOut>>
  /\ UNCHANGED notFrontend

NextFrontend ==
  \/ WsOpen
  \/ WsFail
  \/ WsClosing
  \/ WsClose
  \/ ConnectTimeout
  \/ Reconnect
  \/ \E kind \in {"chat", "generate"} : Send(kind)
  \/ WsAnswer
  \/ HttpAnswer

SpecFrontend == Init /\ [][NextFrontend]_vars

\* the same with what the browser guarantees: a timer that was set fires,
\* and an answer that can arrive does
SpecFrontendFair ==
  /\ Init /\ [][NextFrontend]_vars
  /\ WF_vars(ConnectTimeout)
  /\ WF_vars(Reconnect)
  /\ WF_vars(WsAnswer)
  /\ WF_vars(HttpAnswer)

\* -------------------------------------------------------- extract, re-fed
\* extractCodeBlocks as a function of the text, for the text that is fed to
\* extract a second time: the code fields of the blocks of the while loop
RECURSIVE ScanCode(_, _)
ScanCode(t, from) ==
  LET m == Exec(t, from)
  IN  IF m.index < 0 THEN <<>>
      ELSE << Trim(m.body) >> \o ScanCode(t, ExecLastIndex(m))

\* the code fields of the blocks extractCodeBlocks returns for the text
ExtractedCode(t) ==
  LET scanned == ScanCode(t, 0)
      fm      == FallbackMatch(t)
  IN  IF scanned = <<>> /\ HasFence(t) /\ fm.index >= 0
      THEN << FallbackBlock(t, fm).code >>
      ELSE scanned

\* ------------------------------------------------------------------- claims

\* offsets of the text at which a fence marker (three backticks) stands
Markers(t) ==
  {o \in 0..(Len(t) - 3) :
     t[o + 1] = Backtick /\ t[o + 2] = Backtick /\ t[o + 3] = Backtick}

\* two markers of which the second begins after the first ends
MarkerPair(t) == \E a, b \in Markers(t) : b >= a + 3

\* the blocks the scan loop pushed (the fallback pushes the others)
Scanned == {i \in 1..Len(spans) : ~spans[i].fallback}

\* the blocks whose fence named no file, so that the filename was inferred
Inferred == {i \in Scanned : ~spans[i].explicit}

\* C1: for an input with no fence marker extract returns no artifact, the
\* input trimmed of outer whitespace as explanation, and a null configText.
C1_NoFence ==
  (pc = "done" /\ Markers(text) = {}) =>
    /\ blocks = <<>>
    /\ explanation = Trim(text)
    /\ config = NULL

\* an input without marker that has backticks and outer whitespace
C1_Witness ==
  /\ pc = "done"
  /\ Markers(text) = {}
  /\ \E k \in 1..Len(text) : text[k] = Backtick
  /\ Len(explanation) > 0
  /\ Len(explanation) < Len(text)

\* what is left of extract: the phases still to run, then the characters
\* the running scan has not passed yet
Phase == CASE pc = "scan" -> 3 [] pc = "config" -> 2 [] pc = "preserve" -> 1
           [] OTHER -> 0

Rank == Phase * (Len(text) + 1) + (Len(text) - reLastIndex)

\* C2: every iteration of the two scan loops strictly advances the scan
\* position within the text; every step of extract lowers a rank that is a
\* natural number, so that extract ends on every input, and it ends with
\* the result, never in another outcome.
C2_Terminates ==
  [][pc # "idle" =>
       /\ (pc = pc' /\ pc \in {"scan", "preserve"}) =>
             (reLastIndex' > reLastIndex /\ reLastIndex' <= Len(text))
       /\ Rank' < Rank
       /\ Rank' >= 0
       /\ pc' \in {"scan", "config", "preserve", "done"}
       /\ pc' = "done" => (explanation' # NULL /\ Len(blocks') = Len(spans'))]_vars

\* a result for a text whose last marker opens a block that is never closed,
\* after both loops iterated
C2_Witness ==
  /\ pc = "done"
  /\ Len(blocks) >= 1
  /\ codeIndex >= 1
  /\ \E o \in Markers(text) : o >= spans[Len(spans)].end

\* C3: the order fields are 0, 1, ..., N-1 in list order, and a block with a
\* smaller order starts at a strictly smaller offset of the text.
C3_Order ==
  \A i \in 1..Len(blocks) :
    /\ blocks[i].order = i - 1
    /\ \A j \in 1..Len(blocks) : i < j => spans[i].index < spans[j].index

C3_Witness == pc = "done" /\ Len(blocks) = 3

\* the filename the inference yields from the window w alone
WindowFilename(w, language) ==
  LET ms  == filenamePatterns(w)
      hit == {k \in 1..Len(ms) : ms[k] # NULL}
  IN  IF hit # {} THEN ms[Min(hit)] ELSE DefaultFilename(w, language)

\* C4: the filename of a fence without filename attribute is inferred from
\* the text between the end of the previous fence (or the start of the text)
\* and the start of this fence only.
C4_WindowOnly ==
  pc = "done" =>
    \A i \in Inferred :
      LET from == IF i = 1 THEN 0 ELSE spans[i - 1].end
      IN  blocks[i].filename =
            WindowFilename(Slice(text, from, spans[i].index), blocks[i].language)

\* C5: the four patterns are tried in the order bold, colon, verb, label;
\* the first that matches supplies the filename, a default is used only when
\* none matches, and "Create config.toml" before a toml fence gives
\* config.toml.
C5_Priority ==
  pc = "done" =>
    /\ \A i \in Inferred :
         LET b     == Slice(text, 0, spans[i].index)
             f     == blocks[i].filename
             bold  == BoldPattern(b)
             colon == ColonPattern(b)
             verb  == VerbPattern(b)
             label == LabelPattern(b)
         IN  /\ bold # NULL => f = bold
             /\ (bold = NULL /\ colon # NULL) => f = colon
             /\ (bold = NULL /\ colon = NULL /\ verb # NULL) => f = verb
             /\ (bold = NULL /\ colon = NULL /\ verb = NULL /\ label # NULL)
                  => f = label
    /\ text = VerbProse \o TomlFence =>
         /\ Len(blocks) = 1
         /\ blocks[1].filename = <<"c", "o", "n", "f", "i", "g", ".", "t", "o", "m", "l">>

\* a block before which both the colon and the verb pattern match, the verb
\* mention standing first in the text
C5_Witness ==
  /\ pc = "done"
  /\ \E i \in Inferred :
       LET b == Slice(text, 0, spans[i].index)
       IN  /\ IndexOfI(b, Verbs[1], 0) = 0
           /\ VerbPattern(b) # NULL
           /\ ColonPattern(b) # NULL
           /\ blocks[i].filename = ColonPattern(b)

\* the name of a well-formed filename attribute on the opening line of the
\* fence at offset o: marker, optional tag, blanks, filename="<name>", newline
ExplicitName(t, o) ==
  LET a == o + 3 + RunIn(t, o + 3, WordChars)
      v == a + RunIn(t, a, {" ", "\t"}) + Len(AttrOpen)
      n == RunIn(t, v, FileChars)
  IN  IF /\ LitAt(t, v - Len(AttrOpen), AttrOpen)
         /\ n > 0
         /\ At(t, v + n) = "\""
         /\ At(t, v + n + 1) = "\n"
      THEN Slice(t, v, v + n) ELSE NULL

\* C6: a fence with an explicit filename="<name>" attribute gives an artifact
\* whose filename is <name>, whatever precedes it and whatever its tag; a
\* text whose only fence is such a fence gives that artifact order 0.
C6_Explicit ==
  pc = "done" =>
    /\ \A i \in Scanned :
         LET name == ExplicitName(text, spans[i].index)
         IN  name # NULL => blocks[i].filename = name
    /\ (/\ Cardinality(Markers(text)) = 2
        /\ MarkerPair(text)
        /\ ExplicitName(text, Min(Markers(text))) # NULL) =>
         /\ Len(blocks) = 1
         /\ blocks[1].order = 0
         /\ blocks[1].filename = ExplicitName(text, Min(Markers(text)))

\* a named fence before which a filename pattern matches
C6_Witness ==
  /\ pc = "done"
  /\ \E i \in Scanned :
       /\ ExplicitName(text, spans[i].index) # NULL
       /\ ColonPattern(Slice(text, 0, spans[i].index)) # NULL

\* no pattern matches in the text before block i
NoPattern(i) ==
  LET b == Slice(text, 0, spans[i].index)
  IN  /\ BoldPattern(b) = NULL
      /\ ColonPattern(b) = NULL
      /\ VerbPattern(b) = NULL
      /\ LabelPattern(b) = NULL

C8_AnyMarker ==
  (pc = "done" /\ Markers(text) # {}) =>
    /\ Len(blocks) >= 1
    /\ Scanned = {} => Len(blocks) = 1

\* C8 amended: the artifact list is empty exactly when the text has no two
\* markers of which the second begins after the first ends; when the scan
\* found no block and there is such a pair, exactly one artifact is emitted.
C8_MarkerPair ==
  pc = "done" =>
    /\ Len(blocks) = 0 <=> ~MarkerPair(text)
    /\ (Scanned = {} /\ MarkerPair(text)) => Len(blocks) = 1

\* the fallback emitted the one artifact
C8_Witness ==
  /\ pc = "done"
  /\ Len(blocks) = 1
  /\ spans[1].fallback

\* C9: the fallback artifact has an empty filename, language typescript and
\* order 0.
C9_FallbackShape ==
  \A i \in 1..Len(blocks) :
    (pc = "done" /\ spans[i].fallback) =>
      /\ blocks[i].filename = <<>>
      /\ blocks[i].language = Typescript
      /\ blocks[i].order = 0

Canonical(b) ==
  (IF b.filename # <<>> /\ b.filename # SrcIndexTs
   THEN Stars \o b.filename \o Stars \o NewLines ELSE <<>>)
    \o Fence \o b.language \o <<"\n">> \o b.code \o <<"\n">> \o Fence

\* the trimmed prose of text.substring(from, to), as a list of zero or one
Prose(from, to) ==
  IF Trim(Slice(text, from, to)) = <<>> THEN <<>>
  ELSE << Trim(Slice(text, from, to)) >>

\* the segments of the text by the matches the first pass recorded, from
\* the k-th on: the prose before each match, the rendering of its artifact,
\* and the prose after the last match
RECURSIVE Stitched(_, _)
Stitched(k, from) ==
  IF k > Len(spans) THEN Prose(from, Len(text))
  ELSE Prose(from, spans[k].index) \o << Canonical(blocks[k]) >>
         \o Stitched(k + 1, spans[k].end)

\* segments joined by one blank line
RECURSIVE Joined(_)
Joined(ss) ==
  IF ss = <<>> THEN <<>>
  ELSE IF Len(ss) = 1 THEN ss[1]
  ELSE ss[1] \o NewLines \o Joined(Tail(ss))

\* the artifact list came from the fallback
FromFallback == Len(spans) = 1 /\ spans[1].fallback

\* C11 as stated: the explanation is the prose fragments in their order with,
\* at the place of the k-th block, the canonical rendering of artifacts[k],
\* also when the fallback produced the artifact.
C11_AllRendered ==
  (pc = "done" /\ Len(blocks) > 0) => explanation = Joined(Stitched(1, 0))

\* C11 amended: when the fence scan produced the artifacts, the explanation
\* is the prose fragments in their order with the canonical rendering of
\* artifacts[k] at the place of the k-th block; when the fallback produced
\* the artifact, the explanation is the trimmed text and no rendering is in
\* it.
C11_ScanRendered ==
  (pc = "done" /\ Len(blocks) > 0) =>
    IF FromFallback THEN explanation = Trim(text)
    ELSE explanation = Joined(Stitched(1, 0))

\* two artifacts with prose between them, the second with a header
C11_Witness ==
  /\ pc = "done"
  /\ Len(blocks) = 2
  /\ ~FromFallback
  /\ Prose(spans[1].end, spans[2].index) # <<>>
  /\ blocks[2].filename \notin {<<>>, SrcIndexTs}

\* the code fields of the artifacts of the finished run
Contents == [i \in 1..Len(blocks) |-> blocks[i].code]

\* the markers of the text are exactly the opening and closing markers of
\* the fenced blocks the scan matched
WellFormed ==
  /\ ~FromFallback
  /\ Markers(text) =
       {spans[i].index : i \in 1..Len(spans)}
         \cup {spans[i].end - 3 : i \in 1..Len(spans)}

\* C12: extract applied to the explanation of a well-formed input returns
\* as many artifacts as the first run, the i-th with the content of the
\* i-th artifact of the first run (no condition is put on the filenames:
\* the inputs include those whose filenames all come from attributes).
C12_RoundTrip ==
  (pc = "done" /\ WellFormed) => ExtractedCode(explanation) = Contents

\* the offset just after the first occurrence of the configuration keyword
\* wrangler.toml (in any letter case), or -1
KeywordEnd ==
  LET k == IndexOfI(text, WranglerToml, 0)
  IN  IF k < 0 THEN -1 ELSE k + Len(WranglerToml)

\* the fenced blocks that begin after the keyword
AfterKeyword == {i \in Scanned : KeywordEnd >= 0 /\ spans[i].index >= KeywordEnd}

\* C13: when the keyword is followed later by a fenced block, configText is
\* the trimmed inner content of that block, which is the content of its
\* artifact, without keyword, markers and language tag; otherwise it is
\* null.
C13_InnerContent ==
  pc = "done" =>
    IF AfterKeyword # {} THEN config = blocks[Min(AfterKeyword)].code
    ELSE config = NULL

\* the text emitted for a part: the prose, or the rendering of its artifact
Emitted(p) ==
  IF p.type = "text" THEN p.content ELSE Canonical(blocks[p.order + 1])

\* C14: the explanation is the emitted segments with exactly two newlines
\* (one blank line) between consecutive segments and nothing before the
\* first or after the last; no segment begins or ends with whitespace, so
\* the separation is never widened; no two prose segments are adjacent.
C14_Separation ==
  (pc = "done" /\ Len(blocks) > 0) =>
    /\ explanation = Joined([i \in 1..Len(parts) |-> Emitted(parts[i])])
    /\ \A i \in 1..Len(parts) :
         /\ Emitted(parts[i]) # <<>>
         /\ Head(Emitted(parts[i])) \notin Whitespace
         /\ Emitted(parts[i])[Len(Emitted(parts[i]))] \notin Whitespace
         /\ i < Len(parts) =>
              ~(parts[i].type = "text" /\ parts[i + 1].type = "text")

\* prose, a rendered block, prose: two separations
C14_Witness ==
  /\ pc = "done"
  /\ Len(parts) = 3
  /\ parts[1].type = "text"
  /\ parts[2].type = "code"
  /\ parts[3].type = "text"

\* C15: the prompt is built and a text generation is invoked only when the
\* documentation search and the history (or project state) lookup have both
\* completed; the extractor runs only when a text generation has completed;
\* while both lookups are pending the search can take its next step and
\* the lookup can complete, so either may complete first.
C15_Ordering ==
  /\ promptBuilt =>
       {finished[i] : i \in 1..Len(finished)} = {"search", Lookup(request.kind)}
  /\ tried # <<>> => promptBuilt
  /\ extracted => (aiDone /\ tried # <<>>)
  /\ Cardinality(pending) = 2 =>
       (ENABLED (Embedded \/ Queried) /\ ENABLED LookupDone)

\* a generation request that ran the extractor, its state lookup having
\* completed before its documentation search
C15_Witness ==
  /\ extracted
  /\ finished = <<"state", "search">>

\* C18: a POST request to /chat, /generate or /search whose required field
\* is missing or empty is answered with status 400 and causes no model
\* call, no retrieval and no store write.
C18_Validated ==
  (at # "idle" /\ ~IsWs(request.kind) /\ request.field # "present") =>
    /\ aiCalls = 0
    /\ retrievals = 0
    /\ writes = 0
    /\ at = "done" => sent = <<"400">>

\* the rows of the conversation asked for, in insertion order
RowsAsked == {i \in 1..Len(messages) : messages[i].conv = asked}

\* C16: getConversationHistory returns rows of the conversation asked for
\* only, as many as the limit allows, oldest first (in the order they were
\* appended), and they are the most recently appended ones, the newest
\* among them.
C16_RecentOldestFirst ==
  asked # "none" =>
    /\ \A k \in 1..Len(history) : history[k] \in RowsAsked
    /\ Len(history) = (IF Cardinality(RowsAsked) < HistoryLimit
                       THEN Cardinality(RowsAsked) ELSE HistoryLimit)
    /\ \A k \in 1..(Len(history) - 1) : history[k] < history[k + 1]
    /\ \A i \in RowsAsked :
         (\E k \in 1..Len(history) : history[k] < i) =>
           (\E k \in 1..Len(history) : history[k] = i)

\* C17: the project_state table holds at most one row, and getProjectState
\* returns the state of the save that completed last (the empty record when
\* no save completed), whatever the interleaving of concurrent saves.
C17_SingleSlot ==
  /\ Len(project_state) <= 1
  /\ got # -1 => got = completed

\* how often request n went out on a transport
Times(out, n) == Cardinality({k \in 1..Len(out) : out[k] = n})

\* C19: a request accepted while this.ws was null or its socket not open
\* went out over HTTP, and every accepted request went out exactly once, on
\* one of the two transports.
C19_HttpFallback ==
  \A n \in 1..Len(accepted) :
    /\ accepted[n].ws # "open" => Times(httpOut, n) = 1
    /\ Times(wsOut, n) + Times(httpOut, n) = 1

\* one request accepted while the socket was closed after having been open,
\* and one accepted on the open socket
C19_Witness ==
  /\ \E n \in 1..Len(accepted) : accepted[n].ws = "closed" /\ Times(httpOut, n) = 1
  /\ \E n \in 1..Len(accepted) : accepted[n].ws = "open" /\ Times(wsOut, n) = 1

\* the name f stands in b as a whole token: somewhere it is followed by the
\* end of b or by a character that is not a word character
TokenWhole(b, f) ==
  \E o \in 0..(Len(b) - Len(f)) :
    /\ LitAt(b, o, f)
    /\ (o + Len(f) = Len(b) \/ At(b, o + Len(f)) \notin WordChars)

\* C20: a filename supplied by the verb or the label pattern is the whole
\* file token with its whole extension, never a prefix of it.
C20_WholeToken ==
  pc = "done" =>
    \A i \in Inferred :
      LET b == Slice(text, 0, spans[i].index)
      IN  (/\ BoldPattern(b) = NULL
           /\ ColonPattern(b) = NULL
           /\ (VerbPattern(b) # NULL \/ LabelPattern(b) # NULL))
            => TokenWhole(b, blocks[i].filename)

\* the last message or status sent, "" when none
LastSent == IF sent = <<>> THEN "" ELSE sent[Len(sent)]

\* C21: the invocations are tried in the fixed order 1, 2, 3 (Llama 3.3
\* chat, Llama 3.1 chat, Llama 3.1 prompt), a later one is issued only while
\* the previous one is in flight and has not returned, the model reported
\* is the model of the invocation that returned, and a request whose
\* invocations failed ends in an error (500 or the error message) after all
\* three were tried, with no conversation message stored.
C21_FallbackChain ==
  /\ [](/\ tried = [i \in 1..Len(tried) |-> i]
        /\ Len(tried) <= 3
        /\ aiDone => modelUsed = Invocations[tried[Len(tried)]].model
        /\ (aiDone /\ Len(tried) = 1) => modelUsed = Llama33
        /\ (aiDone /\ Len(tried) > 1) => modelUsed = Llama31
        /\ (at = "done" /\ aiDone) => LastSent \in {"response", "complete", "200"}
        /\ (at = "done" /\ tried # <<>> /\ ~aiDone) =>
             /\ Len(tried) = 3
             /\ LastSent = (IF IsWs(request.kind) THEN "error" ELSE "500")
             /\ writes = 0)
  /\ [][tried' # tried =>
          /\ tried' = Append(tried, Len(tried) + 1)
          /\ ~aiDone
          /\ tried # <<>> => at = "model"]_vars

\* the prompt-format invocation returned after the two chat-format ones
\* failed, and the response went out
C21_Witness ==
  /\ at = "done"
  /\ aiDone
  /\ tried = <<1, 2, 3>>
  /\ modelUsed = Llama31

\* the stored rows the invocation in flight was given, as entries of its
\* messages array or quoted in its system prompt
GivenRows ==
  {passed[k] : k \in 1..Len(passed)} \cup {quoted[k] : k \in 1..Len(quoted)}

\* C22: a text generation invoked by a WebSocket chat request is given at
\* most 6 previously stored messages of the conversation.
C22_SixMessages ==
  (chat.path = "ws" /\ invocation >= 1) => Cardinality(GivenRows) <= 6

\* C27: the conversation a chat request read its history from is the one
\* its two messages were stored under and the one named in its response,
\* and a request that carried no conversationId read no stored message.
C27_OneConversation ==
  /\ returned # "none" =>
       /\ asked = returned
       /\ messages[Len(messages)].conv = asked
       /\ messages[Len(messages) - 1].conv = asked
  /\ chat.given = "absent" => history = <<>>

\* C29: in a result of getConversationHistory the user message of an
\* exchange stands before the assistant reply to it (rows 2n-1 and 2n of
\* the table), also when both carry the same created_at.
C29_UserBeforeReply ==
  asked # "none" =>
    \A k, l \in 1..Len(history) :
      (/\ messages[history[k]].role = "user"
       /\ history[l] = history[k] + 1) => k < l

\* C23: over the fetch calls of one agent instance initializeDatabase is
\* invoked at most once.
C23_InitOnce == initCalls <= 1

\* C24: POST /populate answers success only when chunks were inserted into
\* the vector index, and when no chunk was inserted (every embedding
\* failed, or the insert failed) it answers success: false with status 500.
C24_SuccessMeansInserted ==
  popAt = "done" =>
    /\ popSent = "success" => (index # {} /\ index = chunks)
    /\ index = {} => popSent = "500"

\* C26: whenever the frontend has marked a request in flight
\* (isGenerating = true), the flag is eventually false again.
C26_EventuallyReset == isGenerating ~> ~isGenerating

\* the messages that end a WebSocket request
Terminals == {"response", "complete", "error"}

\* the places of sent that hold a terminal message
TerminalsSent == {k \in 1..Len(sent) : sent[k] \in Terminals}

\* C25: for a WebSocket message of type chat or generate the server sends
\* at most one terminal message (response, complete or error), nothing
\* after it, and exactly one by the time the request has ended; thinking
\* and progress messages come before it, and a generate request that
\* completes has sent analyzing, generating, complete in this order.
C25_OneTerminal ==
  (at # "idle" /\ IsWs(request.kind)) =>
    /\ Cardinality(TerminalsSent) <= 1
    /\ TerminalsSent \subseteq {Len(sent)}
    /\ at = "done" => Cardinality(TerminalsSent) = 1
    /\ request.kind = "wsChat" =>
         sent \in {<<>>, <<"thinking">>, <<"thinking", "response">>,
                   <<"thinking", "error">>}
    /\ (request.kind = "wsGenerate" /\ TerminalsSent # {}) =>
         sent \in {<<"analyzing", "generating", "complete">>,
                   <<"analyzing", "generating", "error">>}

\* a generate request over the WebSocket that ended after its complete
\* message and its saveProjectState
C25_Witness ==
  /\ at = "done"
  /\ request.kind = "wsGenerate"
  /\ sent = <<"analyzing", "generating", "complete">>
  /\ writes = 1

\* block.filename || `file${i + 1}.ts`: the path of the i-th artifact (i
\* counted from 1 here) in the project state processCodeGeneration saves
FilePath(i) ==
  IF blocks[i].filename # <<>> THEN blocks[i].filename
  ELSE <<"f", "i", "l", "e", ToString(i), ".", "t", "s">>

\* C28: no two artifacts of one extraction carry the same non-empty
\* filename, and the file paths saved for them are pairwise distinct.
C28_DistinctPaths ==
  pc = "done" =>
    \A i, j \in 1..Len(blocks) :
      i < j =>
        /\ blocks[i].filename # <<>> => blocks[i].filename # blocks[j].filename
        /\ FilePath(i) # FilePath(j)

====
